---- MODULE Spec2Model ----
(***************************************************************************)
(* AskAndPay: the metered query-and-billing controller of src/app.py.      *)
(*                                                                         *)
(* State: the PaymentHandler singleton (sender, question_count), the       *)
(* QueryEngineInstance singleton (index, query_engine) and, per request    *)
(* worker of the Flask server, the position of the request it is serving   *)
(* together with its locals.  Every external capability (LLM, document     *)
(* reader, index builder, payment gateway) either returns or raises.       *)
(***************************************************************************)
EXTENDS Integers, FiniteSets, Sequences, TLC

\* ---------------------------------------------------------------- bounds
MaxCount == 11
MaxCountConc == 6
MaxCountReload == 2
MaxCountMemory == 3
MaxTurns == 2
MaxThreads == 2

\* ------------------------------------------------------ program constants
price_per_5_questions == 100
ChargeUnitSize == 5
MinorPerMajor == 100
MAX_FILE_SIZE == 10485760

Threads == 1..MaxThreads
Emails == {"a@example.com", "b@example.com"}
Docs == {"doc1", "doc2"}
ALLOWED_EXTENSIONS == {"pdf", "txt", "md"}
Exts == ALLOWED_EXTENSIONS \cup {"exe"}
Sizes == {MAX_FILE_SIZE, MAX_FILE_SIZE + 1}
NoFile == [ext |-> "", doc |-> "none", size |-> 0]
Files == {NoFile} \cup [ext : Exts, doc : Docs, size : Sizes]
\* the uploads of the runs that do not follow the file's size
FitFiles == {f \in Files : f.size <= MAX_FILE_SIZE}
\* the uploads of the concurrent run: none, one refused, one accepted
ConcFiles == {f \in FitFiles : f = NoFile \/ (f.doc = "doc1" /\ f.ext \in {"pdf", "exe"})}
GatewayStatuses == {"succeeded", "processing"}

NoCustomer == "none"
NoIndex == "none"
EmptyIndex == "empty"
NoEngine == "none"
NoPayment == [status |-> "absent", amount |-> 0]
NoAnswer == "absent"

VARIABLES
    sender,          \* PaymentHandler.sender: NoCustomer or the customer registered
    question_count,  \* PaymentHandler.question_count
    index,           \* QueryEngineInstance.index: NoIndex, EmptyIndex or a document
    query_engine,    \* QueryEngineInstance.query_engine: NoEngine or the index it is bound to
    run,             \* the run's setting: the request workers the server runs, the cap on
                     \* question_count, whether stats and memory are kept, and the files
                     \* uploaded
    pc,              \* pc[t]: where worker t is in the request it serves
    call,            \* call[t]: the locals, the calls made and the response of worker t's
                     \* current (or, when idle, last) request
    stats,           \* what happened since the current payer registered
    chargesAt,       \* chargesAt[c]: charges triggered on observing question_count = c
    memory           \* QueryEngineInstance.memory: the turns the buffer retains, oldest first

vars == <<sender, question_count, index, query_engine, run, pc, call, stats, chargesAt, memory>>

\* ----------------------------------------------------------------- helpers
Response(code, error, answer, payment) ==
    [code |-> code, error |-> error, answer |-> answer, payment |-> payment]

NoResponse == Response(0, "none", NoAnswer, NoPayment)

NoCall ==
    [op |-> "none", arg |-> "none", loaded |-> 0, llm |-> "no", charge |-> "no", attempts |-> 0,
     gwStatus |-> "none", ret |-> "none", resp |-> NoResponse]

NewCall(op) == [NoCall EXCEPT !.op = op]

\* call[t].arg, what the request carried, is kept in the runs that keep stats
Seen(r, a) == IF r.stats THEN a ELSE "none"

\* stats counts the questions answered and the charges triggered for the
\* current payer; it stops counting for good at the first failed query.
NoStats == [answered |-> 0, charges |-> 0, failed |-> FALSE]

Registered(r, st) == IF r.stats /\ ~st.failed THEN NoStats ELSE st

FailedStats == [answered |-> 0, charges |-> 0, failed |-> TRUE]

Failed(r, st) == IF r.stats THEN FailedStats ELSE st

Answered(r, st) == IF r.stats /\ ~st.failed THEN [st EXCEPT !.answered = @ + 1] ELSE st

Charged(r, st) == IF r.stats /\ ~st.failed THEN [st EXCEPT !.charges = @ + 1] ELSE st

\* the sender check left out
SenderMissing_m(s) == FALSE

\* `if not self.sender` in track_question_and_charge
SenderMissing(s) == s = NoCustomer

\* `if not self.sender` in process_payment
PaymentSenderMissing(s) == s = NoCustomer

\* the sender dropped before the gateway is asked for the new customer
SenderAfterFailure_m(s, em) == NoCustomer

\* self.sender after stripe.Customer.create raised: the assignment of
\* line 108 was not reached
SenderAfterFailure(s, em) == s

\* how the set_sender route sees the body's sender_email: the key is absent,
\* or present with an empty or a non-empty value
EmailArg(em) == IF em = "missing" THEN "missing" ELSE IF em = "" THEN "empty" ELSE "email"

\* the buffer after a turn was put into it: it retains the newest turns
\* that fit its budget
Put(mem, turn) ==
    LET all == Append(mem, turn)
    IN  IF Len(all) > MaxTurns THEN SubSeq(all, Len(all) - MaxTurns + 1, Len(all)) ELSE all

\* the engine, handed the buffer by create_query_engine, may record the
\* turn of a question it answered
Recorded(r, mem, turn, rec) == IF r.memory /\ rec THEN Put(mem, turn) ELSE mem

\* the question recorded before the engine is called
MemoryAfterFailure_m(r, mem) == Recorded(r, mem, "unanswered", TRUE)

\* self.memory after QueryEngineInstance.query raised: query writes nothing
\* to the buffer, it logs and re-raises
MemoryAfterFailure(r, mem) == mem

\* the engine's exception logged and swallowed
QueryRaises_m(answered) == FALSE

\* QueryEngineInstance.query re-raises what the engine's query raised
QueryRaises(answered) == ~answered

\* the payment error swallowed and the answer returned
ChargeFailed_m(resp) == [resp EXCEPT !.code = 200]

\* a StripeError of process_payment leaves track_question_and_charge and the
\* route answers it with an error payload: the answer built so far is dropped
ChargeFailed(resp) == Response(500, "payment error", NoAnswer, NoPayment)

\* the charge tried once more after the gateway raised
GatewayCalls_m(status) == IF status = "raise" THEN 2 ELSE 1

\* the calls of stripe.PaymentIntent.create one process_payment makes: one,
\* whether it returns or raises
GatewayCalls(status) == 1

\* `self.question_count % 5 == 0`
ChargeDue(c) == c % ChargeUnitSize = 0

\* the increment taken back when the charge fails
CountAfterFailedCharge_m(c) == c - 1

\* question_count after process_payment raised: the exception propagates
\* out of track_question_and_charge, nothing writes the counter
CountAfterFailedCharge(c) == c

\* the amount reported in minor units
MajorUnits_m(a) == a

\* `payment_result.amount / 100`
MajorUnits(a) == a \div MinorPerMajor

\* allowed_file: the extension is in Config.ALLOWED_EXTENSIONS
allowed_file(ext) == ext \in ALLOWED_EXTENSIONS

\* what is uploaded: no file, a file of a type outside pdf, txt, md, a file
\* above 10 MB, or a file of an accepted type within the size limit
FileArg(f) ==
    IF f = NoFile THEN "nofile"
    ELSE IF f.ext \notin {"pdf", "txt", "md"} THEN "badtype"
    ELSE IF f.size > MAX_FILE_SIZE THEN "oversized"
    ELSE "fits"

\* the index assigned before its construction is known to have succeeded
LoadFailed_m(idx, d, outcome) == IF outcome = "build" THEN d ELSE idx

\* self.index after load_documents caught an exception of the reader
\* ("parse") or of VectorStoreIndex.from_documents ("build"): the assignment
\* of line 48 was not reached
LoadFailed(idx, d, outcome) == idx

\* documents inserted into the index already there
Loaded_m(idx, d) == IF idx \in Docs /\ idx # d THEN "mixed" ELSE d

\* `self.index = VectorStoreIndex.from_documents(documents)`: a new index,
\* built from the loaded documents alone, replaces the old one
Loaded(idx, d) == d

\* ------------------------------------------------------------ construction
\* QueryEngineInstance._initialize -> create_query_engine on index = None:
\* the empty index is built and the engine bound to it, unless a step raises
\* (the exception is caught and logged, the fields keep what they had).
InitEngine ==
    \/ index = NoIndex /\ query_engine = NoEngine
    \/ index = EmptyIndex /\ query_engine = NoEngine
    \/ index = EmptyIndex /\ query_engine = EmptyIndex

InitCommon ==
    /\ sender = NoCustomer
    /\ question_count = 0
    /\ InitEngine
    /\ pc = [t \in Threads |-> "idle"]
    /\ call = [t \in Threads |-> NoCall]
    /\ stats = NoStats
    /\ chargesAt = [c \in 1..MaxCount |-> 0]
    /\ memory = <<>>

\* one request at a time
Init ==
    InitCommon /\ run = [pool |-> {1}, limit |-> MaxCount, stats |-> TRUE,
                          memory |-> FALSE, files |-> Files]

\* two workers, for the interleavings of queries and reloads
InitReload ==
    InitCommon /\ run = [pool |-> {1, 2}, limit |-> MaxCountReload, stats |-> FALSE,
                          memory |-> FALSE, files |-> FitFiles]

\* the threaded server: requests of different workers interleave
InitConc ==
    InitCommon /\ run = [pool |-> Threads, limit |-> MaxCountConc, stats |-> FALSE,
                          memory |-> FALSE, files |-> ConcFiles]

\* one request at a time, the conversation memory followed
InitMemory ==
    InitCommon /\ run = [pool |-> {1}, limit |-> MaxCountMemory, stats |-> FALSE,
                          memory |-> TRUE, files |-> FitFiles]

\* ------------------------------------------------------------- /set_sender
\* The route and PaymentHandler.set_sender: em is the body's sender_email
\* ("missing" when the key is absent, "" when it is there and empty); created
\* tells whether the gateway's createCustomer returned.
SetSender(t, em, created) ==
    /\ t \in run.pool /\ pc[t] = "idle"
    /\ UNCHANGED <<question_count, index, query_engine, run, memory, pc, chargesAt>>
    /\ IF em = "missing"
       THEN /\ ~created
            /\ call' = [call EXCEPT ![t] = [NewCall("set_sender") EXCEPT
                           !.arg = Seen(run, EmailArg(em)),
                           !.resp = Response(400, "sender_email is required", NoAnswer, NoPayment)]]
            /\ UNCHANGED <<sender, stats>>
       ELSE IF created
       THEN /\ sender' = em
            /\ stats' = Registered(run, stats)
            /\ call' = [call EXCEPT ![t] = [NewCall("set_sender") EXCEPT
                           !.arg = Seen(run, EmailArg(em)), !.ret = "customer",
                           !.resp = Response(200, "none", NoAnswer, NoPayment)]]
       ELSE /\ sender' = SenderAfterFailure(sender, em)
            /\ call' = [call EXCEPT ![t] = [NewCall("set_sender") EXCEPT
                           !.arg = Seen(run, EmailArg(em)), !.ret = "raise",
                           !.resp = Response(500, "stripe error", NoAnswer, NoPayment)]]
            /\ UNCHANGED stats

\* ------------------------------------------------------------------ /query
\* The route's validation, the sender check and the load of question_count
\* that begins `self.question_count += 1`.
TrackBegin(t, hasQuestion) ==
    /\ t \in run.pool /\ pc[t] = "idle"
    /\ question_count < run.limit
    /\ UNCHANGED <<sender, question_count, index, query_engine, run, memory, stats, chargesAt>>
    /\ IF ~hasQuestion
       THEN /\ call' = [call EXCEPT ![t] = [NewCall("query") EXCEPT
                           !.resp = Response(400, "question is required", NoAnswer, NoPayment)]]
            /\ UNCHANGED pc
       ELSE IF SenderMissing(sender)
       THEN /\ call' = [call EXCEPT ![t] = [NewCall("query") EXCEPT
                           !.ret = "raise",
                           !.resp = Response(500, "Sender not initialized", NoAnswer, NoPayment)]]
            /\ UNCHANGED pc
       ELSE /\ call' = [call EXCEPT ![t] = [NewCall("query") EXCEPT !.loaded = question_count]]
            /\ pc' = [pc EXCEPT ![t] = "store"]

\* The store that ends `self.question_count += 1`.
TrackStore(t) ==
    /\ t \in run.pool /\ pc[t] = "store"
    /\ question_count' = call[t].loaded + 1
    /\ pc' = [pc EXCEPT ![t] = "query"]
    /\ UNCHANGED <<sender, index, query_engine, run, memory, call, stats, chargesAt>>

\* QueryEngineInstance.query: answered tells whether the engine's query returned.
TrackQuery(t, answered) ==
    /\ t \in run.pool /\ pc[t] = "query"
    /\ UNCHANGED <<sender, question_count, index, query_engine, run, chargesAt>>
    /\ IF query_engine = NoEngine
       THEN /\ ~answered
            /\ call' = [call EXCEPT ![t].loaded = 0, ![t].ret = "raise",
                                    ![t].resp = Response(500, "Query engine not initialized",
                                                         NoAnswer, NoPayment)]
            /\ pc' = [pc EXCEPT ![t] = "idle"]
            /\ stats' = Failed(run, stats)
            /\ memory' = MemoryAfterFailure(run, memory)
       ELSE IF QueryRaises(answered)
       THEN /\ call' = [call EXCEPT ![t].loaded = 0, ![t].llm = "fail", ![t].ret = "raise",
                                    ![t].resp = Response(500, "query error", NoAnswer, NoPayment)]
            /\ pc' = [pc EXCEPT ![t] = "idle"]
            /\ stats' = Failed(run, stats)
            /\ memory' = MemoryAfterFailure(run, memory)
       ELSE /\ call' = [call EXCEPT ![t].llm = IF answered THEN "ok" ELSE "fail",
                                    ![t].resp = Response(0, "none", query_engine, NoPayment)]
            /\ pc' = [pc EXCEPT ![t] = "charge"]
            /\ stats' = Answered(run, stats)
            /\ \E rec \in BOOLEAN : memory' = Recorded(run, memory, query_engine, rec)

\* The charge decision and PaymentHandler.process_payment: status is the
\* status of the payment intent the gateway returned, "raise" when it raised.
TrackCharge(t, status) ==
    /\ t \in run.pool /\ pc[t] = "charge"
    /\ pc' = [pc EXCEPT ![t] = "idle"]
    /\ UNCHANGED <<sender, index, query_engine, run, memory>>
    /\ question_count' = IF /\ ChargeDue(question_count)
                            /\ ~PaymentSenderMissing(sender)
                            /\ status = "raise"
                         THEN CountAfterFailedCharge(question_count)
                         ELSE question_count
    /\ IF ~ChargeDue(question_count)
       THEN /\ status = "raise"
            /\ call' = [call EXCEPT ![t].loaded = 0, ![t].ret = "response",
                                    ![t].resp = [@ EXCEPT !.code = 200]]
            /\ UNCHANGED <<stats, chargesAt>>
       ELSE IF PaymentSenderMissing(sender)
       THEN /\ status = "raise"
            /\ call' = [call EXCEPT ![t].loaded = 0, ![t].ret = "raise",
                                    ![t].resp = Response(500, "Sender not initialized",
                                                         NoAnswer, NoPayment)]
            /\ UNCHANGED <<stats, chargesAt>>
       ELSE /\ stats' = Charged(run, stats)
            /\ chargesAt' = [chargesAt EXCEPT ![question_count] = @ + 1]
            /\ IF status = "raise"
               THEN call' = [call EXCEPT ![t].loaded = 0,
                                         ![t].attempts = GatewayCalls(status),
                                         ![t].charge = "fail", ![t].ret = "raise",
                                         ![t].resp = ChargeFailed(@)]
               ELSE call' = [call EXCEPT ![t].loaded = 0,
                                         ![t].attempts = GatewayCalls(status),
                                         ![t].charge = "ok", ![t].gwStatus = status,
                                         ![t].ret = "response",
                                         ![t].resp = [@ EXCEPT !.code = 200,
                                            !.payment = [status |-> status,
                                                         amount |-> MajorUnits(price_per_5_questions)]]]

\* ----------------------------------------------------------------- /upload
\* The route's validation, file.save and load_documents up to the assignment
\* of self.index.  f is the uploaded file (NoFile when the request has
\* none); outcome: "save" (file.save raises), "parse" (the reader raises),
\* "build" (the index construction raises) or "ok".
UploadBegin(t, f, outcome) ==
    /\ t \in run.pool /\ pc[t] = "idle" /\ f \in run.files
    /\ UNCHANGED <<sender, question_count, query_engine, run, memory, stats, chargesAt>>
    /\ IF f = NoFile
       THEN /\ outcome = "ok"
            /\ call' = [call EXCEPT ![t] = [NewCall("upload") EXCEPT
                           !.arg = Seen(run, FileArg(f)),
                           !.resp = Response(400, "No file provided", NoAnswer, NoPayment)]]
            /\ UNCHANGED <<index, pc>>
       ELSE IF ~allowed_file(f.ext)
       THEN /\ outcome = "ok"
            /\ call' = [call EXCEPT ![t] = [NewCall("upload") EXCEPT
                           !.arg = Seen(run, FileArg(f)),
                           !.resp = Response(400, "File type not allowed", NoAnswer, NoPayment)]]
            /\ UNCHANGED <<index, pc>>
       ELSE IF outcome = "save"
       THEN /\ call' = [call EXCEPT ![t] = [NewCall("upload") EXCEPT
                           !.arg = Seen(run, FileArg(f)), !.ret = "raise",
                           !.resp = Response(500, "save error", NoAnswer, NoPayment)]]
            /\ UNCHANGED <<index, pc>>
       ELSE IF outcome \in {"parse", "build"}
       THEN /\ index' = LoadFailed(index, f.doc, outcome)
            /\ call' = [call EXCEPT ![t] = [NewCall("upload") EXCEPT
                           !.arg = Seen(run, FileArg(f)), !.ret = "False",
                           !.resp = Response(500, "Error processing file", NoAnswer, NoPayment)]]
            /\ UNCHANGED pc
       ELSE /\ index' = Loaded(index, f.doc)
            /\ call' = [call EXCEPT ![t] = [NewCall("upload") EXCEPT !.arg = Seen(run, FileArg(f))]]
            /\ pc' = [pc EXCEPT ![t] = "engine"]

\* create_query_engine as load_documents calls it, and the return of
\* load_documents: built tells whether as_query_engine returned.
UploadEngine(t, built) ==
    /\ t \in run.pool /\ pc[t] = "engine"
    /\ query_engine' = IF built THEN index ELSE query_engine
    /\ pc' = [pc EXCEPT ![t] = "idle"]
    /\ call' = [call EXCEPT ![t].ret = "True",
                            ![t].resp = Response(200, "none", NoAnswer, NoPayment)]
    /\ UNCHANGED <<sender, question_count, index, run, memory, stats, chargesAt>>

\* ------------------------------------------------------------ specification
Next ==
    \/ \E t \in Threads, em \in Emails \cup {"", "missing"}, created \in BOOLEAN :
          SetSender(t, em, created)
    \/ \E t \in Threads, hasQuestion \in BOOLEAN : TrackBegin(t, hasQuestion)
    \/ \E t \in Threads : TrackStore(t)
    \/ \E t \in Threads, answered \in BOOLEAN : TrackQuery(t, answered)
    \/ \E t \in Threads, status \in GatewayStatuses \cup {"raise"} : TrackCharge(t, status)
    \/ \E t \in Threads, f \in Files,
          outcome \in {"save", "parse", "build", "ok"} : UploadBegin(t, f, outcome)
    \/ \E t \in Threads, built \in BOOLEAN : UploadEngine(t, built)

Spec == Init /\ [][Next]_vars

SpecConc == InitConc /\ [][Next]_vars

SpecReload == InitReload /\ [][Next]_vars

SpecMemory == InitMemory /\ [][Next]_vars

\* ------------------------------------------------------------------ claims
Completed(t, op) == t \in run.pool /\ pc[t] = "idle" /\ call[t].op = op

\* C1: as long as no query has failed, the N questions answered for the
\* registered payer trigger a charge exactly on the 5th, 10th, ... of them,
\* floor(N/5) charges in total.
C1_ChargeEveryFifth ==
    \A t \in Threads :
        (Completed(t, "query") /\ call[t].llm = "ok" /\ ~stats.failed) =>
            /\ (call[t].charge # "no") <=> (stats.answered % 5 = 0)
            /\ stats.charges = stats.answered \div 5

\* C2: a request whose query raises leaves question_count at the value it
\* had when the request began.
C2_FailedQueryKeepsCount ==
    [][\A t \in Threads :
          (t \in run.pool /\ pc[t] = "query" /\ pc'[t] = "idle") =>
              question_count' = call[t].loaded]_vars

\* C3: a question asked while no payer is registered is answered with the
\* no-payer error in the very step that begins it: the request never reaches
\* the increment, the query engine or the charge, and question_count and the
\* charges made stay as they were.
C3_NoPayerNoSideEffects ==
    /\ [](\A t \in Threads : pc[t] \in {"store", "query", "charge"} => sender # NoCustomer)
    /\ [][\A t \in Threads :
             (/\ t \in run.pool /\ pc[t] = "idle" /\ sender = NoCustomer
              /\ call'[t].op = "query" /\ call'[t].resp.error # "question is required"
              /\ <<pc, call>> # <<pc', call'>>) =>
                 /\ pc'[t] = "idle"
                 /\ call'[t].resp.code = 500
                 /\ call'[t].resp.error = "Sender not initialized"
                 /\ call'[t].llm = "no" /\ call'[t].charge = "no"
                 /\ question_count' = question_count
                 /\ chargesAt' = chargesAt]_vars

C3_Witness ==
    /\ Completed(1, "query") /\ sender = NoCustomer
    /\ call[1].resp.error = "Sender not initialized"

\* C4: a successful registration of a payer leaves question_count at 0.
C4_RegisterResetsCount ==
    \A t \in Threads :
        (Completed(t, "set_sender") /\ call[t].ret = "customer") => question_count = 0

\* C5: no value of question_count is charged for twice, however the requests
\* of the workers interleave.
C5_NoDoubleCharge == \A c \in DOMAIN chargesAt : chargesAt[c] <= 1

\* C6: a request whose question was answered and whose due charge failed at
\* the gateway ends as an error: the payment error is what the caller gets,
\* without the answer and without a payment field.
C6_FailedChargeFailsRequest ==
    \A t \in Threads :
        (Completed(t, "query") /\ call[t].llm = "ok" /\ call[t].charge = "fail") =>
            /\ call[t].resp.code = 500
            /\ call[t].resp.error = "payment error"
            /\ call[t].resp.answer = NoAnswer
            /\ call[t].resp.payment = NoPayment

C6_Witness ==
    /\ Completed(1, "query") /\ call[1].llm = "ok" /\ call[1].charge = "fail"
    /\ question_count = 5

\* C7: within one request the payment gateway is called only after the
\* query engine returned an answer: a request whose query failed has made no
\* charge, on any question index.
C7_NoChargeForFailedQuery ==
    \A t \in Threads :
        /\ call[t].charge # "no" => call[t].llm = "ok"
        /\ call[t].llm = "fail" => (pc[t] = "idle" /\ call[t].resp.payment = NoPayment)

C7_Witness ==
    /\ Completed(1, "query") /\ call[1].llm = "fail"
    /\ question_count = 5 /\ chargesAt[5] = 0

\* C8: the response to a question carries a payment field exactly when the
\* count reached by that question is a multiple of 5 and the charge
\* succeeded; the field holds the status the gateway returned and the
\* configured amount divided by 100.
C8_PaymentField ==
    \A t \in Threads :
        Completed(t, "query") =>
            /\ (call[t].resp.payment # NoPayment) <=>
                   (call[t].llm = "ok" /\ question_count % 5 = 0 /\ call[t].charge = "ok")
            /\ (call[t].resp.payment # NoPayment) =>
                   /\ call[t].resp.code = 200
                   /\ call[t].resp.answer # NoAnswer
                   /\ call[t].resp.payment.amount = price_per_5_questions \div 100
                   /\ call[t].resp.payment.status = call[t].gwStatus
                   /\ call[t].gwStatus \in GatewayStatuses

C8_Witness ==
    /\ Completed(1, "query") /\ question_count = 10
    /\ call[1].resp.payment = [status |-> "processing", amount |-> 1]

\* C9: a load_documents that returns False has changed neither the index nor
\* the query engine, and the upload is answered with an error.
C9_FailedLoadKeepsIndex ==
    [][\A t \in Threads :
          (/\ t \in run.pool /\ pc[t] = "idle" /\ pc'[t] = "idle"
           /\ call'[t].op = "upload" /\ call'[t].ret = "False") =>
              /\ index' = index
              /\ query_engine' = query_engine
              /\ call'[t].resp.code = 500]_vars

C9_Witness ==
    /\ Completed(1, "upload") /\ call[1].ret = "False"
    /\ index = "doc1" /\ query_engine = "doc1"

\* C10: after a load_documents that returned True the query engine is the
\* one built on the index just loaded.
C10_LoadedEngineIsNew ==
    \A t \in Threads :
        (Completed(t, "upload") /\ call[t].ret = "True") => query_engine = index

\* C11: whatever the interleaving of queries and reloads, the engine a query
\* is served by is bound to one whole index, the one before or the one after
\* a reload: query_engine only ever holds such an engine, and a reload
\* replaces it by the engine of the current index or leaves it.
WholeIndexes == {EmptyIndex} \cup Docs

C11_EngineOnOneIndex ==
    /\ [](/\ query_engine \in {NoEngine} \cup WholeIndexes
          /\ \A t \in Threads : pc[t] = "charge" => call[t].resp.answer \in WholeIndexes)
    /\ [][query_engine' # query_engine =>
              /\ query_engine' = index
              /\ \E t \in Threads : pc[t] = "engine" /\ pc'[t] = "idle"]_vars

C11_Witness ==
    /\ pc[1] = "charge" /\ call[1].resp.answer = "doc1"
    /\ pc[2] = "engine" /\ index = "doc2" /\ query_engine = "doc1"

\* C12: a registration that fails at the gateway leaves the registered payer
\* and question_count as they were, and the caller gets the error.
C12_FailedRegistrationKeepsPayer ==
    [][\A t \in Threads :
          (/\ t \in run.pool /\ pc[t] = "idle" /\ pc'[t] = "idle"
           /\ call'[t].op = "set_sender" /\ call'[t].ret = "raise") =>
              /\ sender' = sender
              /\ question_count' = question_count
              /\ call'[t].resp.code = 500
              /\ call'[t].resp.error # "none"]_vars

C12_Witness ==
    /\ Completed(1, "set_sender") /\ call[1].ret = "raise"
    /\ sender = "a@example.com" /\ question_count = 3

\* C14: a registration whose sender email is missing, absent from the body
\* or empty, is answered with an error payload without the gateway's
\* createCustomer being called, and no payer is registered under it.
C14_MissingEmailRejected ==
    /\ sender # ""
    /\ \A t \in Threads :
           (Completed(t, "set_sender") /\ call[t].arg \in {"missing", "empty"}) =>
               /\ call[t].resp.error # "none"
               /\ call[t].ret = "none"

\* C13: one request calls the gateway's charge operation at most once: once
\* when a charge is due, whether the gateway returns or raises, and not at
\* all otherwise.
C13_NoChargeRetry ==
    \A t \in Threads :
        /\ call[t].attempts <= 1
        /\ call[t].charge \in {"ok", "fail"} => call[t].attempts = 1
        /\ call[t].charge = "no" => call[t].attempts = 0

C13_Witness ==
    /\ Completed(1, "query") /\ call[1].charge = "fail" /\ call[1].attempts = 1
    /\ question_count = 10

\* C15: an upload goes on to be indexed only when its extension is pdf, txt
\* or md and its size is at most 10 MB; any other upload ends at once with
\* an error and leaves the index as it was.
C15_UploadAccepted ==
    [][\A t \in Threads :
          (/\ t \in run.pool /\ pc[t] = "idle"
           /\ call'[t].op = "upload" /\ call'[t].arg \in {"badtype", "oversized"}) =>
              /\ pc'[t] = "idle"
              /\ call'[t].resp.error # "none"
              /\ index' = index]_vars

\* C16: a query that fails leaves the conversation memory as it was: the
\* same turns, in the same order, and no partial turn.
C16_FailedQueryKeepsMemory ==
    [][\A t \in Threads :
          (t \in run.pool /\ pc[t] = "query" /\ pc'[t] = "idle") => memory' = memory]_vars

C16_Witness ==
    /\ Completed(1, "query") /\ call[1].llm = "fail"
    /\ memory = <<"empty", "doc1">>

\* C17: under any interleaving of concurrent answer requests no count
\* increment and no due charge is lost. Every request's increment raises
\* question_count by exactly one, and a request attempts a charge exactly
\* when the value it counted to is a multiple of 5; so k completed requests
\* raise the count by k and charge once for every multiple of 5 passed.
C17_NoLostIncrementOrCharge ==
    [][\A t \in Threads :
          /\ (t \in run.pool /\ pc[t] = "store" /\ pc'[t] = "query")
                => question_count' = question_count + 1
          /\ (t \in run.pool /\ pc[t] = "charge" /\ pc'[t] = "idle")
                => (ChargeDue(call[t].loaded + 1) <=> chargesAt' # chargesAt)]_vars

\* C18: a due charge that fails leaves question_count on that multiple of
\* 5: the counter is neither rolled back nor re-armed, so a charge is
\* attempted only at multiples of 5 and at most once at each; the failed
\* block is never charged again.
C18_FailedChargeKeepsCount ==
    /\ [](\A c \in 1..MaxCount :
             /\ chargesAt[c] <= 1
             /\ chargesAt[c] > 0 => ChargeDue(c))
    /\ [][\A t \in Threads :
             (t \in run.pool /\ pc[t] = "charge" /\ call'[t].charge = "fail")
                => /\ question_count' = question_count
                   /\ ChargeDue(question_count')]_vars

C18_Witness ==
    /\ Completed(1, "query") /\ call[1].charge = "fail" /\ call[1].ret = "raise"
    /\ question_count = ChargeUnitSize
    /\ chargesAt[ChargeUnitSize] = 1

====
